---- MODULE Spec2Model ----
(***************************************************************************)
(* The adapters of mem0-mcp-server.                                        *)
(*                                                                         *)
(*   mem0_mcp_server.py    MCPServer: a hand-written JSON-RPC loop over    *)
(*                         stdin/stdout, forwarding tool calls over HTTP.  *)
(*   mem0_stdio_mcp.py,                                                    *)
(*   mem0_stdio_mcp_fixed.py,                                              *)
(*   mem0_stdio_server.py  call_tool handlers registered with the MCP SDK, *)
(*                         which owns their dispatch loop.                 *)
(*   mem0_server.py        the HTTP facade: FastAPI routes over Memory.    *)
(*                                                                         *)
(* One behaviour of the model is one process: `variant` is the file that   *)
(* is run, fixed at start.                                                 *)
(***************************************************************************)
EXTENDS Integers, Sequences, FiniteSets, TLC

VARIABLES
    variant,    \* which file is run as the process
    pc,         \* control position of the process
    memory,     \* module global `memory` / `mem0_client`: "unset", "ok", "none"
    consumed,   \* the lines read from stdin so far, in order
    line,       \* MCPServer.run local `line`
    request,    \* MCPServer.run local `request`: [bound, value]
    response,   \* MCPServer.run local `response`
    stdout,     \* what MCPServer.run has printed: <<[at, env]>>, `at` the
                \* number of lines read when the envelope was printed
    calls,      \* calls made to the memory backend: <<[at, op]>>
    toolcalls,  \* SDK variants: the (name, arguments) given to call_tool
    replies,    \* SDK variants: what call_tool returned, one per tool call
    store,      \* SDK variants: the records the memory backend keeps
    fallback,   \* mem0_stdio_mcp(_fixed): module globals `memories` and
                \* `memory_counter`
    tool_lists, \* SDK variants: what list_tools returned, one per call
    http        \* mem0_server: the requests served, each with its response

vars == <<variant, pc, memory, consumed, line, request, response, stdout,
          calls, toolcalls, replies, store, fallback, tool_lists, http>>

----------------------------------------------------------------------------
(* Bounds *)

\* lines on stdin of one MCPServer process
MaxLines == 2

\* requests dispatched to the handlers of one SDK or HTTP process
MaxCalls == 2

----------------------------------------------------------------------------
(* JSON-RPC input of MCPServer *)

\* request ids; "null" is JSON null and also an absent id (dict.get -> None)
Ids == {"null", "1", "2"}

KnownTools == {"mem0_add", "mem0_search", "mem0_get_all", "mem0_delete"}
ToolNames == KnownTools \cup {"bogus_tool"}

\* A line of input.  kind "unreadable": sys.stdin.readline raises on it (bytes
\* that do not decode); "malformed": json.loads raises JSONDecodeError; "json":
\* it parses, to a JSON object (type "object") or to any other JSON value.
\* params/arguments are "object" or "other" (list, string, number, null).
MkLine(kind, type, id, method, params, name, arguments) ==
    [kind |-> kind, type |-> type, id |-> id, method |-> method,
     params |-> params, name |-> name, arguments |-> arguments]

Lines ==
    {MkLine("unreadable", "-", "-", "-", "-", "-", "-"),
     MkLine("malformed", "-", "-", "-", "-", "-", "-"),
     MkLine("json", "other", "-", "-", "-", "-", "-")}
    \cup {MkLine("json", "object", i, m, "object", "-", "-") :
            i \in Ids, m \in {"initialize", "tools/list", "bogus/method"}}
    \cup {MkLine("json", "object", i, m, "other", "-", "-") :
            i \in Ids, m \in {"tools/list", "tools/call"}}
    \cup {MkLine("json", "object", i, "tools/call", "object", n, "object") :
            i \in Ids, n \in ToolNames}
    \cup {MkLine("json", "object", i, "tools/call", "object", "mem0_get_all", "other") :
            i \in Ids}

NoLine == MkLine("none", "-", "-", "-", "-", "-", "-")

\* what the HTTP backend does with one request of MCPServer: "ok" a JSON body
\* of a success, "failure" a JSON body of an error status (404, 500, 503),
\* "raise" requests raises (connection refused) or response.json() raises
Outcomes == {"ok", "failure", "raise"}

\* json.loads(line): the value, or JSONDecodeError
json_loads(l) ==
    IF l.kind = "malformed"
    THEN [raised |-> TRUE, value |-> NoLine]
    ELSE [raised |-> FALSE, value |-> l]

\* x.get(...) exists on dict only
HasGet(v) == v.type = "object"

----------------------------------------------------------------------------
(* MCPServer.handle_request *)

MCPServerTools ==
    << [name |-> "mem0_add", description |-> "Add a memory to Mem0",
        properties |-> {<<"messages", "array">>, <<"user_id", "string">>,
                        <<"metadata", "object">>},
        required |-> {"messages"}],
       [name |-> "mem0_search", description |-> "Search memories in Mem0",
        properties |-> {<<"query", "string">>, <<"user_id", "string">>,
                        <<"limit", "integer">>},
        required |-> {"query"}],
       [name |-> "mem0_get_all", description |-> "Get all memories from Mem0",
        properties |-> {<<"user_id", "string">>},
        required |-> {}],
       [name |-> "mem0_delete", description |-> "Delete a memory from Mem0",
        properties |-> {<<"memory_id", "string">>},
        required |-> {"memory_id"}] >>

NoResult == [none |-> TRUE]

Returned(result, called) ==
    [raised |-> FALSE, exc |-> "-", result |-> result, called |-> called]
Raised(exc) ==
    [raised |-> TRUE, exc |-> exc, result |-> NoResult, called |-> "-"]

\* {"content": [{"type": "text", "text": json.dumps(response.json())}]}
ContentResult(body) == [content |-> <<[type |-> "text", text |-> body]>>]

\* call_branch without its try/except: a failing backend call raises
call_branch_unguarded(name, arguments, outcome) ==
    IF name \in {"mem0_add", "mem0_search"}
    THEN IF outcome = "raise"
         THEN Raised("ConnectionError")
         ELSE Returned(ContentResult(<<name, outcome>>), name)
    ELSE IF name \in {"mem0_get_all", "mem0_delete"}
    THEN IF arguments # "object"
         THEN Raised("AttributeError")
         ELSE IF outcome = "raise"
         THEN Raised("ConnectionError")
         ELSE Returned(ContentResult(<<name, outcome>>), name)
    ELSE Returned([error |-> <<"Unknown tool: ", name>>], "-")

\* the tools/call branch, inside its try/except
call_branch(name, arguments, outcome) ==
    IF name \in {"mem0_add", "mem0_search"}
    THEN IF outcome = "raise"
         THEN Returned([error |-> <<"ConnectionError">>], name)
         ELSE Returned(ContentResult(<<name, outcome>>), name)
    ELSE IF name \in {"mem0_get_all", "mem0_delete"}
    THEN IF arguments # "object"
         THEN Returned([error |-> <<"AttributeError">>], "-")
         ELSE IF outcome = "raise"
         THEN Returned([error |-> <<"ConnectionError">>], name)
         ELSE Returned(ContentResult(<<name, outcome>>), name)
    ELSE Returned([error |-> <<"Unknown tool: ", name>>], "-")

\* handle_request listing no tool when the params of tools/list are not an
\* object
handle_request_listing_filtered(req, outcome) ==
    IF ~HasGet(req)
    THEN Raised("AttributeError")
    ELSE IF req.method = "tools/list"
    THEN IF req.params = "object"
         THEN Returned([tools |-> MCPServerTools], "-")
         ELSE Returned([tools |-> <<>>], "-")
    ELSE IF req.method = "tools/call"
    THEN IF req.params # "object"
         THEN Raised("AttributeError")
         ELSE call_branch(req.name, req.arguments, outcome)
    ELSE IF req.method = "initialize"
    THEN Returned([protocolVersion |-> "2024-11-05",
                   capabilities |-> [tools |-> {}],
                   serverInfo |-> [name |-> "mem0-mcp-server",
                                   version |-> "1.0.0"]], "-")
    ELSE Returned([error |-> <<"Unknown method: ", req.method>>], "-")


\* MCPServer.handle_request
handle_request(req, outcome) ==
    IF ~HasGet(req)
    THEN Raised("AttributeError")
    ELSE IF req.method = "tools/list"
    THEN Returned([tools |-> MCPServerTools], "-")
    ELSE IF req.method = "tools/call"
    THEN IF req.params # "object"
         THEN Raised("AttributeError")
         ELSE call_branch(req.name, req.arguments, outcome)
    ELSE IF req.method = "initialize"
    THEN Returned([protocolVersion |-> "2024-11-05",
                   capabilities |-> [tools |-> {}],
                   serverInfo |-> [name |-> "mem0-mcp-server",
                                   version |-> "1.0.0"]], "-")
    ELSE Returned([error |-> <<"Unknown method: ", req.method>>], "-")

----------------------------------------------------------------------------
(* MCPServer.run *)

INTERNAL_ERROR == -32603

NoRequest == [bound |-> FALSE, value |-> NoLine]

\* sys.stdout after print(json.dumps(env)); `at` counts the lines read so far
print(out, at, env) == Append(out, [at |-> at, env |-> env])

\* json_response with the id left out of the echo
json_response_without_id(req, result) ==
    [jsonrpc |-> "2.0", id |-> "null", result |-> result]

\* the envelope of a handled request
json_response(req, result) ==
    [jsonrpc |-> "2.0", id |-> req.id, result |-> result]

\* the except block of run: request.get("id") if 'request' in locals() else
\* None.  `request` is whatever the last successful json.loads left in the
\* local; request.get raises out of the handler when that is not a dict.
except_block(req, exc) ==
    IF req.bound /\ ~HasGet(req.value)
    THEN [crashed |-> TRUE, env |-> NoResult]
    ELSE [crashed |-> FALSE,
          env |-> [jsonrpc |-> "2.0",
                   id |-> IF req.bound THEN req.value.id ELSE "null",
                   error |-> [code |-> INTERNAL_ERROR, message |-> exc]]]

\* ReadLine taking the next line while the response to the request in hand
\* is still to be written
ReadLine_pipelined ==
    /\ variant = "mcp_server"
    /\ pc \in {"read", "write"}
    /\ \/ /\ pc' = "done"
          /\ UNCHANGED <<consumed, line, stdout>>
       \/ /\ Len(consumed) < MaxLines
          /\ \E l \in Lines :
               /\ consumed' = Append(consumed, l)
               /\ IF l.kind = "unreadable"
                  THEN LET h == except_block(request, "UnicodeDecodeError") IN
                       /\ line' = line
                       /\ IF h.crashed
                          THEN pc' = "crashed" /\ stdout' = stdout
                          ELSE /\ pc' = "read"
                               /\ stdout' = print(stdout, Len(consumed'), h.env)
                  ELSE /\ line' = l
                       /\ pc' = "parse"
                       /\ stdout' = stdout
    /\ UNCHANGED <<variant, memory, request, response, calls, toolcalls, replies,
                   store, fallback, tool_lists, http>>

\* ReadLine printing an error envelope when it meets the end of the input
ReadLine_eof_answered ==
    /\ variant = "mcp_server"
    /\ pc = "read"
    /\ \/ /\ pc' = "done"
          /\ stdout' = print(stdout, Len(consumed),
                             except_block(NoRequest, "EOFError").env)
          /\ UNCHANGED <<consumed, line>>
       \/ /\ Len(consumed) < MaxLines
          /\ \E l \in Lines :
               /\ consumed' = Append(consumed, l)
               /\ IF l.kind = "unreadable"
                  THEN LET h == except_block(request, "UnicodeDecodeError") IN
                       /\ line' = line
                       /\ IF h.crashed
                          THEN pc' = "crashed" /\ stdout' = stdout
                          ELSE /\ pc' = "read"
                               /\ stdout' = print(stdout, Len(consumed'), h.env)
                  ELSE /\ line' = l
                       /\ pc' = "parse"
                       /\ stdout' = stdout
    /\ UNCHANGED <<variant, memory, request, response, calls, toolcalls, replies,
                   store, fallback, tool_lists, http>>

\* line = readline(): end of file leaves the loop; a line that cannot be
\* decoded raises into the except block
ReadLine ==
    /\ variant = "mcp_server"
    /\ pc = "read"
    /\ \/ /\ pc' = "done"
          /\ UNCHANGED <<consumed, line, stdout>>
       \/ /\ Len(consumed) < MaxLines
          /\ \E l \in Lines :
               /\ consumed' = Append(consumed, l)
               /\ IF l.kind = "unreadable"
                  THEN LET h == except_block(request, "UnicodeDecodeError") IN
                       /\ line' = line
                       /\ IF h.crashed
                          THEN pc' = "crashed" /\ stdout' = stdout
                          ELSE /\ pc' = "read"
                               /\ stdout' = print(stdout, Len(consumed'), h.env)
                  ELSE /\ line' = l
                       /\ pc' = "parse"
                       /\ stdout' = stdout
    /\ UNCHANGED <<variant, memory, request, response, calls, toolcalls, replies,
                   store, fallback, tool_lists, http>>

\* ParseLine answering a JSONDecodeError with a parse-error envelope
ParseLine_answering ==
    /\ variant = "mcp_server"
    /\ pc = "parse"
    /\ LET p == json_loads(line) IN
       IF p.raised
       THEN /\ pc' = "read" /\ request' = request
            /\ stdout' = print(stdout, Len(consumed),
                               except_block(NoRequest, "JSONDecodeError").env)
       ELSE /\ pc' = "handle"
            /\ request' = [bound |-> TRUE, value |-> p.value]
            /\ stdout' = stdout
    /\ UNCHANGED <<variant, memory, consumed, line, response, calls,
                   toolcalls, replies,
                   store, fallback, tool_lists, http>>

\* request = json.loads(line), JSONDecodeError: continue
ParseLine ==
    /\ variant = "mcp_server"
    /\ pc = "parse"
    /\ LET p == json_loads(line) IN
       IF p.raised
       THEN pc' = "read" /\ request' = request
       ELSE pc' = "handle" /\ request' = [bound |-> TRUE, value |-> p.value]
    /\ UNCHANGED <<variant, memory, consumed, line, response, stdout, calls,
                   toolcalls, replies,
                   store, fallback, tool_lists, http>>

\* response = await self.handle_request(request); an exception goes to the
\* except block of run
HandleRequest ==
    /\ variant = "mcp_server"
    /\ pc = "handle"
    /\ \E outcome \in Outcomes :
         LET r == handle_request(request.value, outcome) IN
         IF r.raised
         THEN LET h == except_block(request, r.exc) IN
              /\ response' = response
              /\ calls' = calls
              /\ IF h.crashed
                 THEN pc' = "crashed" /\ stdout' = stdout
                 ELSE /\ pc' = "read"
                      /\ stdout' = print(stdout, Len(consumed), h.env)
         ELSE /\ response' = r.result
              /\ calls' = IF r.called = "-" THEN calls
                          ELSE Append(calls, [at |-> Len(consumed),
                                              op |-> r.called,
                                              outcome |-> outcome])
              /\ pc' = "write"
              /\ stdout' = stdout
    /\ UNCHANGED <<variant, memory, consumed, line, request, toolcalls, replies,
                   store, fallback, tool_lists, http>>

\* print(json.dumps(json_response)); sys.stdout.flush()
WriteResponse ==
    /\ variant = "mcp_server"
    /\ pc = "write"
    /\ stdout' = print(stdout, Len(consumed),
                       json_response(request.value, response))
    /\ pc' = "read"
    /\ UNCHANGED <<variant, memory, consumed, line, request, response, calls,
                   toolcalls, replies,
                   store, fallback, tool_lists, http>>

----------------------------------------------------------------------------
(* The SDK variants: module import and call_tool *)

SdkVariants == {"stdio_mcp", "stdio_mcp_fixed", "stdio_server"}
Variants == {"mcp_server", "http_server"} \cup SdkVariants

\* the tools each variant's call_tool knows
VariantTools(v) ==
    IF v = "stdio_server"
    THEN {"mem0_add", "mem0_search", "mem0_get_all", "mem0_delete"}
    ELSE {"mem0_add", "mem0_search", "mem0_list", "mem0_delete"}

\* names a client may call; "bogus_tool^A" holds a control character
CallNames ==
    {"mem0_add", "mem0_search", "mem0_list", "mem0_get_all", "mem0_delete",
     "bogus_tool", "bogus_tool^A"}

\* the string argument of a call (content, query or memory_id); "X^A" holds
\* a control character
CallArgs == {"X", "X^A"}

\* the user_id argument of a call; "absent" is a call without one
CallUsers == {"absent", "u1"}

\* the arguments that reach the handler's code: the list tools read none, the
\* unknown names read none, and only mem0_stdio_server reads user_id
ArgsOf(name) ==
    IF name \in {"mem0_add", "mem0_search", "mem0_delete"} THEN CallArgs
    ELSE {"X"}

UsersOf(v, name) ==
    IF v = "stdio_server" /\ name \in {"mem0_add", "mem0_get_all"}
    THEN CallUsers
    ELSE {"absent"}

\* default_user_id of mem0_stdio_mcp(_fixed), used for every call;
\* arguments.get("user_id", DEFAULT_USER_ID) of mem0_stdio_server
user_id(v, user) ==
    IF v = "stdio_server"
    THEN IF user = "absent" THEN "claude_code_user" ELSE user
    ELSE "alexander_fedin"

\* what the memory backend does with one call: it raises, or returns None, a
\* flat list of records, or a {"results": [...], "relations": ...} envelope
\* whose relations are absent, or hold one item that is a mapping, or hold
\* one item that is a single-element list with the mapping in it; the
\* relations of an add come under the key "added_entities" of a mapping, or
\* ("envelope_relations_list") as the list of items itself
SdkOutcomes ==
    {"raise", "none", "list", "envelope", "envelope_rel_dict",
     "envelope_rel_list", "envelope_relations_list"}

\* safe_text_response: drops the characters below 32 other than \n \r \t
safe_text_response(t) ==
    IF t = "X^A" THEN "X"
    ELSE IF t = "bogus_tool^A" THEN "bogus_tool"
    ELSE t

Text(parts) == [raised |-> FALSE, text |-> parts, called |-> FALSE]
Called(r) == [r EXCEPT !.called = TRUE]

NOT_INITIALIZED ==
    <<"Memory service not initialized. Please check database connections.">>

----------------------------------------------------------------------------
(* The memory backend behind the SDK variants *)

\* a record as the backend returns it; the model writes the id of the record
\* that holds content c as c
MemRecord(c) == [id |-> c, memory |-> c]

Rel == [source |-> "alice", relationship |-> "knows", target |-> "bob"]

\* one item of a relations list: the mapping itself ("dict"), or a list with
\* the mapping as its only element ("list")
RelItem(shape) == [shape |-> shape, rel |-> Rel]

\* the values a backend call gives back to call_tool; `keyed` tells that
\* "relations" is a mapping with the items under "added_entities", not the
\* list of the items
Raises ==
    [kind |-> "raise", results |-> <<>>, relations |-> <<>>, keyed |-> FALSE]
Nothing ==
    [kind |-> "none", results |-> <<>>, relations |-> <<>>, keyed |-> FALSE]
FlatList(recs) ==
    [kind |-> "list", results |-> recs, relations |-> <<>>, keyed |-> FALSE]
Envelope(recs, rels, keyed) ==
    [kind |-> "dict", results |-> recs, relations |-> rels, keyed |-> keyed]

\* the records kept for one user, in a fixed order
Stored(st, user) ==
    LET kept(c) == [user_id |-> user, memory |-> c] \in st
        held == SelectSeq(<<"X", "X^A">>, kept)
    IN [k \in DOMAIN held |-> MemRecord(held[k])]

\* one call of the backend on store st: add keeps the content for the user
\* and returns its record, search returns the user's records whose content is
\* the query, get_all the user's records, delete drops the record of that id
\* (and returns nothing, whether or not there was one); `can` tells whether
\* the backend can answer in the shape `outcome` (it does not return None for
\* records it has)
backend(op, st, user, arg, outcome) ==
    LET recs == Stored(st, user)
        is_arg(r) == r.memory = arg
        found == SelectSeq(recs, is_arg)
        rels == IF outcome \in {"envelope_rel_dict", "envelope_relations_list"}
                THEN <<RelItem("dict")>>
                ELSE IF outcome = "envelope_rel_list" THEN <<RelItem("list")>>
                ELSE <<>>
        shaped(rs) == IF outcome = "none" THEN Nothing
                      ELSE IF outcome = "list" THEN FlatList(rs)
                      ELSE Envelope(rs, rels,
                                    /\ op = "add"
                                    /\ outcome # "envelope_relations_list")
    IN  IF outcome = "raise"
        THEN [res |-> Raises, store |-> st, can |-> TRUE]
        ELSE IF op = "add"
        THEN [res |-> shaped(<<MemRecord(arg)>>),
              store |-> st \cup {[user_id |-> user, memory |-> arg]},
              can |-> TRUE]
        ELSE IF op = "search"
        THEN [res |-> shaped(found), store |-> st,
              can |-> /\ outcome \in {"none", "list", "envelope"}
                      /\ outcome = "none" => found = <<>>]
        ELSE IF op = "get_all"
        THEN [res |-> shaped(recs), store |-> st,
              can |-> /\ outcome # "envelope_relations_list"
                      /\ outcome = "none" => recs = <<>>]
        ELSE [res |-> Nothing,
              store |-> {r \in st : r.memory # arg},
              can |-> outcome = "none"]

----------------------------------------------------------------------------
(* call_tool of mem0_stdio_mcp and mem0_stdio_mcp_fixed *)

\* one "  - source -> relationship -> target" line
rel_line(rel) ==
    <<"  - ", rel.source, " -> ", rel.relationship, " -> ", rel.target>>

\* mem0_add: the loop over relations["added_entities"], which takes the
\* mapping out of a list item before it reads it
RECURSIVE added_entities_lines(_)
added_entities_lines(items) ==
    IF items = <<>> THEN <<>>
    ELSE LET rel_item == Head(items)
             rel == IF rel_item.shape = "list" THEN <<rel_item.rel>>
                    ELSE IF rel_item.shape = "dict" THEN <<rel_item.rel>>
                    ELSE <<>>
         IN (IF rel = <<>> THEN <<>> ELSE rel_line(rel[1]))
            \o added_entities_lines(Tail(items))

\* mem0_add: relations.get("added_entities") on relations that are a list
\* raises AttributeError
mem0_add_raises(result) ==
    /\ result.kind = "dict"
    /\ result.relations # <<>>
    /\ ~result.keyed

\* mem0_add: the response text for what memory.add returned
mem0_add_text(content, result) ==
    LET head == IF result.kind = "dict" /\ result.results # <<>>
                THEN <<"Added memory [", result.results[1].id, "]: ", content>>
                ELSE <<"Added memory: ", content>>
        rels == IF result.kind = "dict" /\ result.relations # <<>>
                THEN <<"Graph relationships created:">>
                     \o added_entities_lines(result.relations)
                ELSE <<>>
    IN head \o rels

\* the "- [id] memory" lines of mem0_search and mem0_list; mem0_stdio_mcp_fixed
\* passes each memory text through safe_text_response
RECURSIVE mem_lines(_, _, _)
mem_lines(memories_list, clean, score) ==
    IF memories_list = <<>> THEN <<>>
    ELSE LET mem == Head(memories_list) IN
         <<"- [", mem.id, "] ",
           IF clean THEN safe_text_response(mem.memory) ELSE mem.memory>>
         \o score
         \o mem_lines(Tail(memories_list), clean, score)

\* mem0_search taking every mapping for a find, its "results" empty or not
mem0_search_text_any_dict(results, clean) ==
    IF results.kind = "dict"
    THEN <<"Found ", ToString(Len(results.results)), " memories:">>
         \o mem_lines(results.results, clean, <<" (score: 0.00)">>)
    ELSE <<"No memories found matching your query">>

\* mem0_search: only a non-empty mapping with non-empty "results" is a find
mem0_search_text(results, clean) ==
    IF results.kind = "dict" /\ results.results # <<>>
    THEN <<"Found ", ToString(Len(results.results)), " memories:">>
         \o mem_lines(results.results, clean, <<" (score: 0.00)">>)
    ELSE <<"No memories found matching your query">>

\* mem0_list: rel.get(...) on an item of relations that is a list raises
\* AttributeError
mem0_list_raises(results) ==
    /\ results.kind = "dict"
    /\ results.results # <<>>
    /\ \E k \in DOMAIN results.relations : results.relations[k].shape = "list"

RECURSIVE relations_lines(_)
relations_lines(relations) ==
    IF relations = <<>> THEN <<>>
    ELSE rel_line(Head(relations).rel) \o relations_lines(Tail(relations))

\* mem0_list: the response text for what memory.get_all returned
mem0_list_text(results, clean) ==
    IF results.kind \in {"dict", "list"} /\ results.results # <<>>
    THEN <<"All memories (", ToString(Len(results.results)), "):">>
         \o mem_lines(results.results, clean, <<>>)
         \o (IF results.relations # <<>>
             THEN <<"Graph relationships:">>
                  \o relations_lines(results.relations)
             ELSE <<>>)
    ELSE <<"No memories stored yet">>

\* safe_text_response over a whole response text
safe_parts(clean, parts) ==
    IF clean THEN [k \in DOMAIN parts |-> safe_text_response(parts[k])]
    ELSE parts

\* what call_tool gives back: the reply, whether the backend was called, the
\* backend's store after it, and whether the backend can behave that way
Answer(r, b) ==
    [raised |-> r.raised, text |-> r.text, called |-> r.called,
     store |-> b.store, can |-> b.can]

\* call_tool of mem0_stdio_mcp and, with clean, of mem0_stdio_mcp_fixed
mcp_call_tool(clean, mem, name, arg, st, outcome) ==
    LET default_user_id == "alexander_fedin"
        unasked == [store |-> st, can |-> TRUE]
        said(b, parts) == Answer(Called(Text(safe_parts(clean, parts))), b)
        failed(b, e) == said(b, <<"Error executing ", name, ": ", e>>)
    IN  IF mem # "ok"
        THEN Answer(Text(safe_parts(clean, NOT_INITIALIZED)), unasked)
        ELSE IF name = "mem0_add"
        THEN LET content == IF clean THEN safe_text_response(arg) ELSE arg
                 b == backend("add", st, default_user_id, content, outcome)
             IN IF b.res.kind = "raise" THEN failed(b, "BackendError")
                ELSE IF mem0_add_raises(b.res)
                THEN failed(b, "AttributeError")
                ELSE said(b, mem0_add_text(content, b.res))
        ELSE IF name = "mem0_search"
        THEN LET query == IF clean THEN safe_text_response(arg) ELSE arg
                 b == backend("search", st, default_user_id, query, outcome)
             IN IF b.res.kind = "raise" THEN failed(b, "BackendError")
                ELSE said(b, mem0_search_text(b.res, clean))
        ELSE IF name = "mem0_list"
        THEN LET b == backend("get_all", st, default_user_id, arg, outcome)
             IN IF b.res.kind = "raise" THEN failed(b, "BackendError")
                ELSE IF mem0_list_raises(b.res)
                THEN failed(b, "AttributeError")
                ELSE said(b, mem0_list_text(b.res, clean))
        ELSE IF name = "mem0_delete"
        THEN LET memory_id == IF clean THEN safe_text_response(arg) ELSE arg
                 b == backend("delete", st, default_user_id, memory_id,
                              outcome)
             IN IF b.res.kind = "raise" THEN failed(b, "BackendError")
                ELSE said(b, <<"Deleted memory ", memory_id>>)
        ELSE Answer(Text(safe_parts(clean, <<"Unknown tool: ", name>>)),
                    unasked)

\* call_tool of mem0_stdio_mcp without its try/except: a failing backend
\* call raises out of call_tool
call_tool_stdio_mcp_unguarded(mem, name, arg, user, st, outcome) ==
    LET r == mcp_call_tool(FALSE, mem, name, arg, st, outcome) IN
    IF r.called /\ outcome = "raise"
    THEN [r EXCEPT !.raised = TRUE, !.text = <<>>]
    ELSE r

\* mem0_stdio_mcp.call_tool
call_tool_stdio_mcp(mem, name, arg, user, st, outcome) ==
    mcp_call_tool(FALSE, mem, name, arg, st, outcome)

\* mem0_stdio_mcp_fixed.call_tool: the same, the arguments and every text
\* through safe_text_response
call_tool_stdio_mcp_fixed(mem, name, arg, user, st, outcome) ==
    mcp_call_tool(TRUE, mem, name, arg, st, outcome)

----------------------------------------------------------------------------
(* call_tool of mem0_stdio_server *)

\* json.dumps of what the client returned: null, or the records' texts
json_dumps(result) ==
    IF result.kind = "none" THEN <<"null">>
    ELSE [k \in DOMAIN result.results |-> result.results[k].memory]

\* mem0_stdio_server.call_tool without its try/except and its else branch
server_call_tool(name, arg, user, st, outcome) ==
    LET said(b, key) ==
            IF b.res.kind = "raise"
            THEN Answer(Called(Text(<<"error", "BackendError">>)), b)
            ELSE Answer(Called(Text(<<"success", key>> \o json_dumps(b.res))),
                        b)
    IN  IF name = "mem0_add"
        THEN said(backend("add", st, user_id("stdio_server", user), arg,
                          outcome), "result")
        ELSE IF name = "mem0_search"
        THEN said(backend("search", st, user_id("stdio_server", user), arg,
                          outcome), "results")
        ELSE IF name = "mem0_get_all"
        THEN said(backend("get_all", st, user_id("stdio_server", user), arg,
                          outcome), "memories")
        ELSE said(backend("delete", st, user_id("stdio_server", user), arg,
                          outcome), "result")

\* call_tool of mem0_stdio_server raising on a name it does not know
call_tool_stdio_server_raising(mem, name, arg, user, st, outcome) ==
    IF name \in {"mem0_add", "mem0_search", "mem0_get_all", "mem0_delete"}
    THEN server_call_tool(name, arg, user, st, outcome)
    ELSE [raised |-> TRUE, text |-> <<>>, called |-> FALSE,
          store |-> st, can |-> TRUE]

\* mem0_stdio_server.call_tool: no check of the client, JSON texts
call_tool_stdio_server(mem, name, arg, user, st, outcome) ==
    IF name \in {"mem0_add", "mem0_search", "mem0_get_all", "mem0_delete"}
    THEN server_call_tool(name, arg, user, st, outcome)
    ELSE Answer(Text(<<"error", "Unknown tool: ", name>>),
                [store |-> st, can |-> TRUE])

call_tool(v, mem, name, arg, user, st, outcome) ==
    IF v = "stdio_mcp"
    THEN call_tool_stdio_mcp(mem, name, arg, user, st, outcome)
    ELSE IF v = "stdio_mcp_fixed"
    THEN call_tool_stdio_mcp_fixed(mem, name, arg, user, st, outcome)
    ELSE call_tool_stdio_server(mem, name, arg, user, st, outcome)

\* the module-level initialization of the backend, run at import:
\* mem0_stdio_mcp, mem0_stdio_mcp_fixed and mem0_server wrap
\* Memory.from_config in try/except and fall back to memory = None;
\* mem0_stdio_server constructs MemoryClient bare
import_backend(v, ok) ==
    IF ok THEN [pc |-> "serving", memory |-> "ok"]
    ELSE IF v = "stdio_server" THEN [pc |-> "crashed", memory |-> "unset"]
    ELSE [pc |-> "serving", memory |-> "none"]

\* the except branch of the initialization of mem0_stdio_mcp(_fixed):
\* memories = {}; memory_counter = 0 (the names stay unbound otherwise)
NoFallback == [bound |-> FALSE, memories |-> {}, memory_counter |-> 0]
fallback_storage(v, ok) ==
    IF ~ok /\ v \in {"stdio_mcp", "stdio_mcp_fixed"}
    THEN [bound |-> TRUE, memories |-> {}, memory_counter |-> 0]
    ELSE NoFallback

Import ==
    /\ variant # "mcp_server"
    /\ pc = "import"
    /\ \E ok \in BOOLEAN :
         LET r == import_backend(variant, ok) IN
         /\ pc' = r.pc /\ memory' = r.memory
         /\ fallback' = fallback_storage(variant, ok)
    /\ UNCHANGED <<variant, consumed, line, request, response, stdout, calls,
                   toolcalls, replies, store, tool_lists, http>>

\* the SDK dispatches one tools/call request to call_tool
CallTool ==
    /\ variant \in SdkVariants
    /\ pc = "serving"
    /\ Len(toolcalls) + Len(tool_lists) < MaxCalls
    /\ \E name \in CallNames :
       \E arg \in ArgsOf(name), user \in UsersOf(variant, name),
          outcome \in SdkOutcomes :
         LET r == call_tool(variant, memory, name, arg, user, store, outcome)
         IN
         /\ r.can
         /\ toolcalls' = Append(toolcalls,
                                [name |-> name, arg |-> arg, user |-> user])
         /\ replies' = Append(replies, [raised |-> r.raised, text |-> r.text])
         /\ store' = r.store
         /\ calls' = IF r.called
                     THEN Append(calls, [at |-> Len(toolcalls'), op |-> name,
                                         outcome |-> outcome])
                     ELSE calls
    /\ UNCHANGED <<variant, pc, memory, consumed, line, request, response,
                   stdout, fallback, tool_lists, http>>

\* list_tools of the SDK variants: a literal list, name and required
\* arguments of each tool
list_tools(v) ==
    << [name |-> "mem0_add", required |-> {"content"}],
       [name |-> "mem0_search", required |-> {"query"}],
       [name |-> IF v = "stdio_server" THEN "mem0_get_all" ELSE "mem0_list",
        required |-> {}],
       [name |-> "mem0_delete", required |-> {"memory_id"}] >>

\* the SDK dispatches one tools/list request to list_tools
ListTools ==
    /\ variant \in SdkVariants
    /\ pc = "serving"
    /\ Len(toolcalls) + Len(tool_lists) < MaxCalls
    /\ tool_lists' = Append(tool_lists, list_tools(variant))
    /\ UNCHANGED <<variant, pc, memory, consumed, line, request, response,
                   stdout, calls, toolcalls, replies, store, fallback, http>>

\* the client closes the stream: the SDK's loop ends
EndOfStream ==
    /\ variant \in SdkVariants
    /\ pc = "serving"
    /\ pc' = "done"
    /\ UNCHANGED <<variant, memory, consumed, line, request, response, stdout,
                   calls, toolcalls, replies, store, fallback, tool_lists,
                   http>>

----------------------------------------------------------------------------
(* mem0_server: the HTTP facade *)

MemoryRoutes ==
    {"add_memory", "search_memories", "get_all_memories", "update_memory",
     "delete_memory", "delete_all_memories"}
Routes == MemoryRoutes \cup {"health_check"}

\* what the backend does with the call of a route: it returns, or raises an
\* exception with some text
HttpOutcomes ==
    {[raised |-> FALSE, text |-> "-"],
     [raised |-> TRUE, text |-> "connection refused"],
     [raised |-> TRUE, text |-> "timed out"]}

\* the method of `memory` a route calls, and the key its result is put under
RouteCall(route) ==
    IF route = "add_memory" THEN [op |-> "add", key |-> "result"]
    ELSE IF route = "search_memories" THEN [op |-> "search", key |-> "results"]
    ELSE IF route = "get_all_memories"
    THEN [op |-> "get_all", key |-> "memories"]
    ELSE IF route = "update_memory" THEN [op |-> "update", key |-> "result"]
    ELSE IF route = "delete_memory" THEN [op |-> "delete", key |-> "result"]
    ELSE [op |-> "delete_all", key |-> "result"]

NoBody == [none |-> TRUE]
HTTPException(status_code, detail, called) ==
    [status |-> status_code, detail |-> detail, body |-> NoBody,
     called |-> called]
Returns(body, called) ==
    [status |-> 200, detail |-> "-", body |-> body, called |-> called]

\* a memory route that calls the backend without looking at `memory` first:
\* on None the call raises AttributeError inside the try
route_handler_unchecked(route, mem, outcome) ==
    IF route = "health_check"
    THEN Returns([status |-> IF mem = "ok" THEN "healthy" ELSE "unhealthy"],
                 "-")
    ELSE IF mem # "ok"
    THEN HTTPException(500, "AttributeError", "-")
    ELSE IF outcome.raised
    THEN HTTPException(500, outcome.text, RouteCall(route).op)
    ELSE Returns([success |-> TRUE, key |-> RouteCall(route).key,
                  value |-> RouteCall(route).op],
                 RouteCall(route).op)

\* health_check and the six memory routes: 503 before the try when `memory`
\* is None, 500 with str(e) when the call raises, the success body otherwise
route_handler(route, mem, outcome) ==
    IF route = "health_check"
    THEN Returns([status |-> IF mem = "ok" THEN "healthy" ELSE "unhealthy"],
                 "-")
    ELSE IF mem # "ok"
    THEN HTTPException(503, "Memory service not initialized", "-")
    ELSE IF outcome.raised
    THEN HTTPException(500, outcome.text, RouteCall(route).op)
    ELSE Returns([success |-> TRUE, key |-> RouteCall(route).key,
                  value |-> RouteCall(route).op],
                 RouteCall(route).op)

\* one request served by mem0_server
ServeHttp ==
    /\ variant = "http_server"
    /\ pc = "serving"
    /\ Len(http) < MaxCalls
    /\ \E route \in Routes, outcome \in HttpOutcomes :
         LET r == route_handler(route, memory, outcome) IN
         /\ http' = Append(http, [route |-> route, status |-> r.status,
                                  detail |-> r.detail, body |-> r.body])
         /\ calls' = IF r.called = "-" THEN calls
                     ELSE Append(calls,
                                 [at |-> Len(http'), op |-> r.called,
                                  outcome |-> IF outcome.raised THEN "raise"
                                              ELSE "ok",
                                  exc |-> outcome.text])
    /\ UNCHANGED <<variant, pc, memory, consumed, line, request, response,
                   stdout, toolcalls, replies, store, fallback, tool_lists>>

----------------------------------------------------------------------------
(* The end of a stdio process *)

StdioVariants == {"mcp_server"} \cup SdkVariants

\* SIGINT while the process waits for its next request: asyncio.run raises
\* KeyboardInterrupt out of the loop
Interrupt ==
    /\ variant \in StdioVariants
    /\ pc \in {"read", "serving"}
    /\ pc' = "interrupted"
    /\ UNCHANGED <<variant, memory, consumed, line, request, response, stdout,
                   calls, toolcalls, replies, store, fallback, tool_lists,
                   http>>

\* the serving loop of the SDK raises (the transport fails)
ServeFailure ==
    /\ variant \in SdkVariants
    /\ pc = "serving"
    /\ pc' = "failed"
    /\ UNCHANGED <<variant, memory, consumed, line, request, response, stdout,
                   calls, toolcalls, replies, store, fallback, tool_lists,
                   http>>

\* the status the process exits with, from where its run ended: the
\* `if __name__ == "__main__"` block of each file.  Only
\* mem0_stdio_mcp_fixed catches anything there (KeyboardInterrupt: exit 0,
\* Exception: exit 1); in the others an exception leaves asyncio.run
\* uncaught (status 1) and KeyboardInterrupt ends the process by SIGINT
exit_status(v, at) ==
    IF at = "done" THEN "0"
    ELSE IF at \in {"crashed", "failed"} THEN "1"
    ELSE IF at = "interrupted"
    THEN IF v = "stdio_mcp_fixed" THEN "0" ELSE "SIGINT"
    ELSE "running"

----------------------------------------------------------------------------
(* The process *)

Init ==
    /\ variant \in Variants
    /\ pc = IF variant = "mcp_server" THEN "read" ELSE "import"
    /\ memory = "unset"
    /\ consumed = <<>>
    /\ line = NoLine
    /\ request = NoRequest
    /\ response = NoResult
    /\ stdout = <<>>
    /\ calls = <<>>
    /\ toolcalls = <<>>
    /\ replies = <<>>
    /\ store = {}
    /\ fallback = NoFallback
    /\ tool_lists = <<>>
    /\ http = <<>>

Next ==
    \/ ReadLine
    \/ ParseLine
    \/ HandleRequest
    \/ WriteResponse
    \/ Import
    \/ CallTool
    \/ ListTools
    \/ EndOfStream
    \/ ServeHttp
    \/ Interrupt
    \/ ServeFailure

Spec == Init /\ [][Next]_vars

\* MCPServer alone, left to run: no interrupt, and the loop takes its next
\* step whenever it has one (readline returns a line or the end of the
\* input, the backend call returns)
InitLoop == Init /\ variant = "mcp_server"
NextLoop == ReadLine \/ ParseLine \/ HandleRequest \/ WriteResponse
SpecLoop == InitLoop /\ [][NextLoop]_vars /\ WF_vars(NextLoop)

----------------------------------------------------------------------------
(* Reading the state of an MCPServer process *)

Parses(l) == l.kind = "json"
IsRequest(l) == Parses(l) /\ l.type = "object"

\* between two iterations of the loop of run, or after it
AtLoopHead ==
    variant = "mcp_server" /\ pc \in {"read", "done", "crashed", "interrupted"}

\* line number i has been read and the loop is done with it
Handled(i) ==
    /\ variant = "mcp_server"
    /\ i \in DOMAIN consumed
    /\ i < Len(consumed) \/ pc \in {"read", "done", "crashed", "interrupted"}

\* the envelopes printed while line number i was the current line
OutAt(i) == {k \in DOMAIN stdout : stdout[k].at = i}

HasResult(env) == "result" \in DOMAIN env
HasError(env) == "error" \in DOMAIN env

\* the backend calls made while line (or tool call) number i was handled
CallsAt(i) == {k \in DOMAIN calls : calls[k].at = i}

----------------------------------------------------------------------------
(* C1 *)

\* C1: every line that run has read and that parses as JSON, whatever the
\* value, has got exactly one envelope on stdout by the time the loop is done
\* with it (so before the next line is read).
C1_OneEnvelopePerParsedLine ==
    \A i \in DOMAIN consumed :
        (Handled(i) /\ Parses(consumed[i])) => Cardinality(OutAt(i)) = 1

----------------------------------------------------------------------------
(* C2 *)

\* C2: every envelope on stdout has jsonrpc "2.0", exactly one of the fields
\* result and error, and, when it answers a parsed request, the id of that
\* request (null for a request without id).
C2_EnvelopeShape ==
    \A k \in DOMAIN stdout :
        LET env == stdout[k].env
            l == consumed[stdout[k].at]
        IN /\ env.jsonrpc = "2.0"
           /\ HasResult(env) # HasError(env)
           /\ Parses(l) => env.id = l.id

\* an answer with a result and an answer with an error, to requests with
\* different ids, one of them without id
C2_Witness ==
    \E j, k \in DOMAIN stdout :
        /\ HasResult(stdout[j].env) /\ HasError(stdout[k].env)
        /\ Parses(consumed[stdout[j].at]) /\ Parses(consumed[stdout[k].at])
        /\ stdout[j].env.id = "null" /\ stdout[k].env.id = "2"

----------------------------------------------------------------------------
(* C3 *)

----------------------------------------------------------------------------
(* C4 *)

\* lines whose handling raises in handle_request: a JSON value that is no
\* object, and a tools/call whose params is no object
RaisesInHandler(l) ==
    /\ Parses(l)
    /\ \/ l.type # "object"
       \/ l.method = "tools/call" /\ l.params # "object"

\* C4: the process never crashes, and every parsed line whose handling raises
\* has got one error envelope with code -32603.
C4_ExceptionBecomesErrorEnvelope ==
    variant = "mcp_server" =>
        /\ pc # "crashed"
        /\ \A i \in DOMAIN consumed :
             (Handled(i) /\ RaisesInHandler(consumed[i])) =>
                 /\ Cardinality(OutAt(i)) = 1
                 /\ \A k \in OutAt(i) :
                      /\ HasError(stdout[k].env)
                      /\ stdout[k].env.error.code = INTERNAL_ERROR

----------------------------------------------------------------------------
(* C5 *)

RECURSIVE IdsOf(_)
\* the ids of the parsed lines of a sequence of lines, in order
IdsOf(ls) ==
    IF ls = <<>> THEN <<>>
    ELSE LET rest == IdsOf(Tail(ls))
             l == Head(ls)
         IN IF ~Parses(l) THEN rest
            ELSE <<IF l.type = "object" THEN l.id ELSE "null">> \o rest

\* C5: on an input whose lines can all be read, whenever the loop is between
\* two lines, the ids of the envelopes on stdout are the ids of the parsed
\* lines read so far, in the same order.
C5_ResponseIdsFollowRequests ==
    (AtLoopHead /\ \A i \in DOMAIN consumed : consumed[i].kind # "unreadable")
        => [k \in DOMAIN stdout |-> stdout[k].env.id] = IdsOf(consumed)

----------------------------------------------------------------------------
(* C6 *)

\* a tools/call request with an object for params that names a tool of
\* MCPServer, whatever its arguments
KnownToolCall(l) ==
    /\ IsRequest(l)
    /\ l.method = "tools/call" /\ l.params = "object"
    /\ l.name \in KnownTools

\* C6: every handled tools/call of MCPServer that names a known tool has got
\* exactly one envelope, with a result field and without an error field,
\* whatever the backend did.
C6_KnownToolCallHasResult ==
    \A i \in DOMAIN consumed :
        (Handled(i) /\ KnownToolCall(consumed[i])) =>
            /\ Cardinality(OutAt(i)) = 1
            /\ \A k \in OutAt(i) :
                 HasResult(stdout[k].env) /\ ~HasError(stdout[k].env)

\* a known tool whose backend call raised, and one whose backend answered
\* with a failure, both answered
C6_Witness ==
    \E i, j \in DOMAIN consumed :
        /\ Handled(i) /\ Handled(j)
        /\ KnownToolCall(consumed[i]) /\ KnownToolCall(consumed[j])
        /\ \E c \in CallsAt(i) : calls[c].outcome = "raise"
        /\ \E c \in CallsAt(j) : calls[c].outcome = "failure"
        /\ OutAt(i) # {} /\ OutAt(j) # {}

----------------------------------------------------------------------------
(* C7 *)

\* C7: every handled request of MCPServer whose method is none of initialize,
\* tools/list and tools/call has got an envelope with the error field, a
\* numeric code in it, and no result field.
C7_UnknownMethodIsProtocolError ==
    \A i \in DOMAIN consumed :
        (/\ Handled(i)
         /\ IsRequest(consumed[i])
         /\ consumed[i].method \notin {"initialize", "tools/list", "tools/call"})
        => /\ OutAt(i) # {}
           /\ \A k \in OutAt(i) :
                /\ HasError(stdout[k].env)
                /\ stdout[k].env.error.code \in Int
                /\ ~HasResult(stdout[k].env)

----------------------------------------------------------------------------
(* C8 *)

\* the text says "Unknown tool: " and then the name, as it is or with its
\* control characters dropped
NamesUnknownTool(text, name) ==
    \E k \in 1..(Len(text) - 1) :
        /\ text[k] = "Unknown tool: "
        /\ text[k + 1] \in {name, safe_text_response(name)}

\* C8: a tools/call with a name the variant does not know, against an
\* initialized backend, is answered with a tool result that names the tool:
\* in MCPServer one envelope with a result and no error field, in the SDK
\* variants a text returned by call_tool without raising; and no backend call
\* is made for it.
C8_UnknownToolIsToolResult ==
    /\ \A i \in DOMAIN consumed :
         (/\ Handled(i)
          /\ IsRequest(consumed[i])
          /\ consumed[i].method = "tools/call" /\ consumed[i].params = "object"
          /\ consumed[i].name \notin KnownTools)
         => /\ Cardinality(OutAt(i)) = 1
            /\ \A k \in OutAt(i) :
                 /\ HasResult(stdout[k].env) /\ ~HasError(stdout[k].env)
                 /\ HasError(stdout[k].env.result)
                 /\ NamesUnknownTool(stdout[k].env.result.error,
                                     consumed[i].name)
            /\ CallsAt(i) = {}
    /\ \A i \in DOMAIN toolcalls :
         (/\ variant \in SdkVariants
          /\ memory = "ok"
          /\ toolcalls[i].name \notin VariantTools(variant))
         => /\ ~replies[i].raised
            /\ NamesUnknownTool(replies[i].text, toolcalls[i].name)
            /\ CallsAt(i) = {}

\* an SDK variant with a live backend (another call reached it) has answered
\* a call of a tool it does not know
C8_Witness ==
    /\ variant \in SdkVariants
    /\ memory = "ok"
    /\ calls # <<>>
    /\ \E i \in DOMAIN toolcalls :
         toolcalls[i].name \notin VariantTools(variant)

----------------------------------------------------------------------------
(* C9 *)

\* the text of a reply or of a result tells of the failure of the backend
TellsFailure(text) ==
    \E k \in DOMAIN text : text[k] \in {"BackendError", "ConnectionError"}

\* C9: a backend call that fails does not leave its request: in MCPServer the
\* handler goes on to the write (never to the except block of run), the
\* request gets one envelope whose result tells of the failure, and the loop
\* is back at the read after it; in the SDK variants call_tool returns a text
\* that tells of the failure, without raising, and the process keeps serving.
C9_BackendFailureStaysInRequest ==
    /\ [](\A c \in DOMAIN calls :
            LET i == calls[c].at IN
            /\ (variant = "mcp_server" /\ calls[c].outcome # "ok") =>
                 IF Handled(i)
                 THEN /\ Cardinality(OutAt(i)) = 1
                      /\ \A k \in OutAt(i) :
                           /\ HasResult(stdout[k].env)
                           /\ \/ /\ calls[c].outcome = "raise"
                                 /\ HasError(stdout[k].env.result)
                                 /\ TellsFailure(stdout[k].env.result.error)
                              \/ /\ calls[c].outcome = "failure"
                                 /\ stdout[k].env.result
                                      = ContentResult(<<calls[c].op, "failure">>)
                 ELSE pc = "write"
            /\ (variant \in SdkVariants /\ calls[c].outcome = "raise") =>
                 /\ ~replies[i].raised
                 /\ TellsFailure(replies[i].text)
                 /\ pc # "crashed")
    /\ [][ /\ (variant = "mcp_server" /\ calls' # calls) => pc' = "write"
           /\ (variant = "mcp_server" /\ pc = "write") => pc' = "read"
           /\ (variant \in SdkVariants /\ calls' # calls)
                => (pc' = "serving" /\ Len(replies') = Len(toolcalls')) ]_vars

\* MCPServer has answered a request that came after one whose backend call
\* raised
C9_Witness ==
    /\ variant = "mcp_server"
    /\ \E c \in DOMAIN calls, j \in DOMAIN consumed :
         /\ calls[c].outcome = "raise"
         /\ calls[c].at < j
         /\ IsRequest(consumed[j])
         /\ \E k \in OutAt(j) : HasResult(stdout[k].env)

----------------------------------------------------------------------------
(* C10 *)

\* C10: no SDK variant crashes at import, and after a failed initialization
\* of the backend every tool call has returned the fixed text without
\* raising, and no backend call has been made.
C10_InitFailureAnswersNotInitialized ==
    variant \in SdkVariants =>
        /\ pc # "crashed"
        /\ (pc # "import" /\ memory # "ok") =>
             /\ calls = <<>>
             /\ \A i \in DOMAIN replies :
                  ~replies[i].raised /\ replies[i].text = NOT_INITIALIZED

----------------------------------------------------------------------------
(* C11 *)

\* C11: in mem0_server every memory route served while `memory` is None has
\* answered 503 with the detail "Memory service not initialized" and made no
\* backend call; served with an initialized backend it has made the one call
\* of its route and answered 500 with the text of the exception when the call
\* raised, the success body under the route's key when it returned; and
\* health_check has always answered 200, saying "healthy" exactly when the
\* backend is initialized.
C11_HttpRoutesAnswerByBackendState ==
    \A i \in DOMAIN http :
        LET x == http[i] IN
        IF x.route = "health_check"
        THEN /\ x.status = 200
             /\ x.body.status = "healthy" <=> memory = "ok"
             /\ x.body.status \in {"healthy", "unhealthy"}
             /\ CallsAt(i) = {}
        ELSE IF memory # "ok"
        THEN /\ x.status = 503
             /\ x.detail = "Memory service not initialized"
             /\ CallsAt(i) = {}
        ELSE /\ Cardinality(CallsAt(i)) = 1
             /\ \A c \in CallsAt(i) :
                  /\ calls[c].op = RouteCall(x.route).op
                  /\ IF calls[c].outcome = "raise"
                     THEN x.status = 500 /\ x.detail = calls[c].exc
                     ELSE /\ x.status = 200
                          /\ x.body.success
                          /\ x.body.key = RouteCall(x.route).key

\* mem0_server with an initialized backend has answered one request whose
\* backend call raised and one whose call returned
C11_Witness ==
    /\ variant = "http_server"
    /\ memory = "ok"
    /\ \E i, j \in DOMAIN http : http[i].status = 500 /\ http[j].status = 200
                                 /\ http[j].route # "health_check"

----------------------------------------------------------------------------
(* Reading the state of an SDK process *)

\* tool call number i is a call of `tool` that reached the backend, and the
\* backend did not raise
Reached(i, tools) ==
    /\ variant \in SdkVariants
    /\ i \in DOMAIN toolcalls
    /\ toolcalls[i].name \in tools \cap VariantTools(variant)
    /\ \E c \in CallsAt(i) : calls[c].outcome # "raise"

ListingTools == {"mem0_list", "mem0_get_all"}

\* the text of a listing shows a record whose content is X: a "- [id] X" line
\* of mem0_stdio_mcp(_fixed), an element of "memories" of mem0_stdio_server
ShowsRecord(text, X) ==
    IF variant = "stdio_server"
    THEN /\ Len(text) >= 2 /\ text[1] = "success" /\ text[2] = "memories"
         /\ \E k \in 3..Len(text) : text[k] = X
    ELSE \E k \in 1..(Len(text) - 1) : text[k] = "] " /\ text[k + 1] = X

----------------------------------------------------------------------------
(* C12 *)

\* C12: whenever an add of content X for a user has succeeded and a later
\* listing for the same user has been answered by the backend, with no delete
\* called between the two, the listing shows a record whose content is X.
C12_AddThenListShowsContent ==
    \A i, j \in DOMAIN toolcalls :
        (/\ Reached(i, {"mem0_add"})
         /\ Reached(j, ListingTools)
         /\ i < j
         /\ toolcalls[i].user = toolcalls[j].user
         /\ \A k \in (i + 1)..(j - 1) : toolcalls[k].name # "mem0_delete")
        => /\ ~replies[j].raised
           /\ ShowsRecord(replies[j].text, toolcalls[i].arg)

----------------------------------------------------------------------------
(* C13 *)

\* the memory_id that call_tool passes to the backend for argument arg
PassedId(arg) ==
    IF variant = "stdio_mcp_fixed" THEN safe_text_response(arg) ELSE arg

\* the reply says that the record was deleted
ReportsDeleted(text) ==
    /\ text # <<>>
    /\ text[1] \in {"Deleted memory ", "success"}

\* C13: a mem0_delete whose memory_id is the id of no record in the store, on
\* an initialized backend, is answered without raising and the reply does not
\* say that the record was deleted.
C13_DeleteOfAbsentIdSaysSo ==
    [][ (/\ variant \in SdkVariants
         /\ memory = "ok"
         /\ Len(toolcalls') = Len(toolcalls) + 1
         /\ toolcalls'[Len(toolcalls')].name = "mem0_delete"
         /\ \A r \in store :
              r.memory # PassedId(toolcalls'[Len(toolcalls')].arg))
        => /\ ~replies'[Len(replies')].raised
           /\ ~ReportsDeleted(replies'[Len(replies')].text) ]_vars

----------------------------------------------------------------------------
(* C14 *)

NO_MATCH == <<"No memories found matching your query">>

\* C14: a search that reaches an initialized backend holding no record that
\* matches the query, and that the backend answers with None, with an empty
\* list or with an envelope of empty results, is answered without raising by
\* the empty-result text (mem0_stdio_mcp and mem0_stdio_mcp_fixed) or by a
\* success body with no record in it (mem0_stdio_server), never by an error.
C14_NoMatchIsEmptyResult ==
    [][ (/\ variant \in SdkVariants
         /\ memory = "ok"
         /\ Len(toolcalls') = Len(toolcalls) + 1
         /\ toolcalls'[Len(toolcalls')].name = "mem0_search"
         /\ Len(calls') = Len(calls) + 1
         /\ calls'[Len(calls')].outcome \in {"none", "list", "envelope"}
         /\ \A r \in store :
              ~(/\ r.user_id = user_id(variant, "absent")
                /\ r.memory = PassedId(toolcalls'[Len(toolcalls')].arg)))
        => /\ ~replies'[Len(replies')].raised
           /\ IF variant = "stdio_server"
              THEN replies'[Len(replies')].text
                     \in {<<"success", "results">>,
                          <<"success", "results", "null">>}
              ELSE replies'[Len(replies')].text = NO_MATCH ]_vars

\* mem0_stdio_mcp has answered a search, to which the backend returned an
\* envelope, with the empty-result text, after an add had succeeded
C14_Witness ==
    /\ variant = "stdio_mcp"
    /\ store # {}
    /\ \E i \in DOMAIN toolcalls :
         /\ toolcalls[i].name = "mem0_search"
         /\ \E c \in CallsAt(i) : calls[c].outcome = "envelope"
         /\ replies[i].text = NO_MATCH

----------------------------------------------------------------------------
(* C15 *)

\* C15: in mem0_stdio_mcp after a failed initialization the fallback mapping
\* exists, and every add call made since, with no delete called after it, has
\* its record in the mapping.
C15_FallbackKeepsAddedRecords ==
    (variant = "stdio_mcp" /\ pc # "import" /\ memory = "none") =>
        /\ fallback.bound
        /\ \A i \in DOMAIN toolcalls :
             (/\ toolcalls[i].name = "mem0_add"
              /\ \A k \in (i + 1)..Len(toolcalls) :
                   toolcalls[k].name # "mem0_delete")
             => \E rec \in fallback.memories : rec.content = toolcalls[i].arg

----------------------------------------------------------------------------
(* C16 *)

\* the requests read so far that have no envelope on stdout yet
Unanswered == {i \in DOMAIN consumed : IsRequest(consumed[i]) /\ OutAt(i) = {}}

\* C16: in MCPServer.run at most one request is in hand: the only request
\* without its envelope is the last line read, the line being parsed and the
\* request being handled or written are that line, envelopes and backend
\* calls appear in the order of the lines; and a line is read only at the
\* head of the loop, when every request read before has its envelope.
C16_OneRequestInHand ==
    /\ [](variant = "mcp_server" =>
            /\ Unanswered \subseteq {Len(consumed)}
            /\ pc \in {"parse", "handle", "write"}
                 => line = consumed[Len(consumed)]
            /\ pc \in {"handle", "write"} => request.value = line
            /\ \A k, l \in DOMAIN stdout :
                 k < l => stdout[k].at <= stdout[l].at
            /\ \A k, l \in DOMAIN calls : k < l => calls[k].at < calls[l].at)
    /\ [][ (variant = "mcp_server" /\ consumed' # consumed)
             => /\ pc = "read"
                /\ Unanswered = {}
                /\ Len(consumed') = Len(consumed) + 1 ]_vars

\* MCPServer is handling its second request, the first one answered
C16_Witness ==
    /\ variant = "mcp_server"
    /\ pc = "handle"
    /\ Len(consumed) = 2
    /\ IsRequest(consumed[1]) /\ IsRequest(consumed[2])
    /\ OutAt(1) # {}
    /\ calls # <<>>

----------------------------------------------------------------------------
(* C17 *)

\* C17: the loop of MCPServer.run leaves by the end of the input only: from
\* the head of the loop, with every request read answered, writing nothing
\* and calling nothing as it leaves; nothing happens after it has left; and
\* a process left to run does stop.
C17_LoopEndsAtEndOfInput ==
    /\ [][ /\ pc' = "done" => /\ pc = "read"
                              /\ Unanswered = {}
                              /\ UNCHANGED <<consumed, stdout, calls>>
           /\ pc # "done" ]_vars
    /\ <>(pc \in {"done", "crashed"})

\* the loop has left at the end of an input of two requests, both answered
C17_Witness ==
    /\ variant = "mcp_server"
    /\ pc = "done"
    /\ Len(consumed) = 2
    /\ IsRequest(consumed[1]) /\ IsRequest(consumed[2])
    /\ OutAt(1) # {} /\ OutAt(2) # {}

----------------------------------------------------------------------------
(* C18 *)

\* C18: a stdio process whose input ended cleanly, or that was interrupted,
\* exits with status 0; one that failed at startup or in its serving loop
\* exits with status 1.
C18_ExitStatus ==
    variant \in StdioVariants =>
        /\ pc \in {"done", "interrupted"} => exit_status(variant, pc) = "0"
        /\ pc \in {"crashed", "failed"} => exit_status(variant, pc) = "1"

----------------------------------------------------------------------------
(* C19 *)

\* the results MCPServer has written for the tools/list requests it has read
ListResults ==
    {stdout[k].env.result :
        k \in {n \in DOMAIN stdout :
                 /\ variant = "mcp_server"
                 /\ IsRequest(consumed[stdout[n].at])
                 /\ consumed[stdout[n].at].method = "tools/list"
                 /\ HasResult(stdout[n].env)}}

\* C19: within one process every tools/list has had the same answer: in
\* MCPServer each tools/list request read and handled has one envelope with a
\* result, and all these results are one and the same list of tools, each
\* with its schema; in the SDK variants all the lists that list_tools has
\* returned are one and the same, and name the tools that call_tool knows.
C19_ToolsListIsStable ==
    /\ \A i \in DOMAIN consumed :
         (Handled(i) /\ IsRequest(consumed[i])
          /\ consumed[i].method = "tools/list")
         => \E k \in OutAt(i) : HasResult(stdout[k].env)
    /\ Cardinality(ListResults) <= 1
    /\ \A r \in ListResults : r.tools # <<>>
    /\ \A i, j \in DOMAIN tool_lists :
         /\ tool_lists[i] = tool_lists[j]
         /\ {tool_lists[i][k].name : k \in DOMAIN tool_lists[i]}
              = VariantTools(variant)

\* MCPServer has answered tools/list twice, a tools/call in between or not
C19_Witness ==
    /\ variant = "mcp_server"
    /\ pc = "read"
    /\ Len(consumed) = 2
    /\ consumed[1].method = "tools/list" /\ consumed[2].method = "tools/list"
    /\ consumed[1].params # consumed[2].params
    /\ Len(stdout) = 2

----------------------------------------------------------------------------
(* C20 *)

\* the number of relationship lines in a text
RelLineCount(text) == Cardinality({k \in DOMAIN text : text[k] = "  - "})

IsErrorText(text) == text # <<>> /\ text[1] = "Error executing "

\* C20: in mem0_stdio_mcp a mem0_add or a mem0_list to which the backend
\* returned an envelope with one relationship, given as a mapping or as a
\* single-element list holding the mapping, is never answered by an error,
\* and the answer, when it shows the records, has exactly one relationship
\* line.
C20_BothRelationShapesRead ==
    variant = "stdio_mcp" =>
        \A i \in DOMAIN toolcalls :
            (/\ toolcalls[i].name \in {"mem0_add", "mem0_list"}
             /\ \E c \in CallsAt(i) :
                  calls[c].outcome \in {"envelope_rel_dict",
                                        "envelope_rel_list"})
            => /\ ~replies[i].raised
               /\ ~IsErrorText(replies[i].text)
               /\ replies[i].text # <<"No memories stored yet">>
                    => RelLineCount(replies[i].text) = 1

----------------------------------------------------------------------------
(* C21 *)

\* the records the backend holds for tool call t: the user's records for a
\* listing, those of them whose content is the query for a search
Matching(t) ==
    {r \in store :
        /\ r.user_id = user_id(variant, t.user)
        /\ t.name = "mem0_search" => r.memory = PassedId(t.arg)}

\* the reply reports n records
ReportsRecords(text, n) ==
    IF variant = "stdio_server"
    THEN text[1] = "success" /\ Len(text) = 2 + n
    ELSE /\ Len(text) >= 2
         /\ text[1] \in {"Found ", "All memories ("}
         /\ text[2] = ToString(n)

\* C21: a mem0_search or a listing for which the backend holds N > 0 records
\* and returns them, as a flat list or as an envelope, is answered without
\* raising by a reply that reports N records.
C21_BothShapesReportRecords ==
    [][ (/\ variant \in SdkVariants
         /\ memory = "ok"
         /\ Len(toolcalls') = Len(toolcalls) + 1
         /\ toolcalls'[Len(toolcalls')].name
              \in ({"mem0_search"} \cup ListingTools) \cap VariantTools(variant)
         /\ Len(calls') = Len(calls) + 1
         /\ calls'[Len(calls')].outcome
              \in {"list", "envelope", "envelope_rel_dict"}
         /\ Matching(toolcalls'[Len(toolcalls')]) # {})
        => /\ ~replies'[Len(replies')].raised
           /\ ReportsRecords(replies'[Len(replies')].text,
                             Cardinality(Matching(toolcalls'[Len(toolcalls')])))
      ]_vars

----------------------------------------------------------------------------
(* C22 *)

\* C22: every error envelope that MCPServer.run has written carries the id
\* of the line it was written for when that line parsed into a request, and
\* null when it did not (the read of the line raised); never the id of an
\* earlier request.
C22_ErrorEnvelopeIdIsCurrent ==
    variant = "mcp_server" =>
        \A k \in DOMAIN stdout :
            HasError(stdout[k].env) =>
                LET l == consumed[stdout[k].at] IN
                stdout[k].env.id = IF IsRequest(l) THEN l.id ELSE "null"

----------------------------------------------------------------------------
(* C23 *)

\* C23: in mem0_stdio_mcp and mem0_stdio_mcp_fixed the reply to a mem0_add
\* whose backend call returned begins with "Added memory", whatever the
\* result and its relations look like; the reply is "Error executing
\* mem0_add" only when the backend call raised.
C23_AddThatReturnedSaysAdded ==
    variant \in {"stdio_mcp", "stdio_mcp_fixed"} =>
        \A i \in DOMAIN toolcalls :
            toolcalls[i].name = "mem0_add" =>
                \A c \in CallsAt(i) :
                    /\ ~replies[i].raised
                    /\ calls[c].outcome # "raise"
                         => replies[i].text[1]
                              \in {"Added memory: ", "Added memory ["}
                    /\ IsErrorText(replies[i].text)
                         => calls[c].outcome = "raise"

====
